---- MODULE Spec2Model ----
(***************************************************************************)
(* auditwheel: the policy store (auditwheel/policy/__init__.py) and the    *)
(* batch loop of `auditwheel repair` (auditwheel/main_repair.py).          *)
(*                                                                         *)
(* Python strings are modelled as sequences of one-character strings, so   *)
(* that startswith, split and join are computed and not assumed.           *)
(***************************************************************************)
EXTENDS Integers, Sequences, FiniteSets, TLC

VARIABLES
    ARCH_NAME,   \* _ARCH_NAME, the machine the program runs on
    pf,          \* the Platform whose policy file is loaded
    policyFile,  \* the parsed policy file, json.loads(path.read_text())
    store,       \* what load_policies returned or raised, once called
    answer,      \* the last call made on the store and what it returned
    given,       \* the command line of `auditwheel repair` as parsed
    args_PLAT,   \* args.PLAT, which execute assigns to
    wheel_policy, \* the policies execute works with (wheel_policy)
    idx,         \* the position in args.WHEEL_FILE of the wheel being processed
    pc,          \* where execute is in its loop body
    wheel,       \* what the wheel being processed contains
    wheel_abi,   \* what analyze_wheel_abi returned for the wheel
    reqd_policy, \* policy, the policy of the requested platform
    abis,        \* the abis execute has built for repair_wheel
    outcome,     \* how execute ended, once it has
    analyzed,    \* the wheels analyze_wheel_abi was called for, in call order
    repaired     \* the wheels repair_wheel was called for, in call order

storeVars == <<ARCH_NAME, pf, policyFile, store, answer>>
repairVars == <<given, args_PLAT, wheel_policy, idx, pc, wheel, wheel_abi, reqd_policy, abis,
                outcome, analyzed, repaired>>
vars == <<storeVars, repairVars>>

\* ---------------------------------------------------------------- bounds
\* Symbol versions are 1..MaxVersion (a larger number is a more recent version).
MaxVersion == 2
\* The longest batch of wheels given to one `auditwheel repair` run.
MaxWheels == 3

\* ---------------------------------------------------------------- strings
Str_linux == <<"l", "i", "n", "u", "x">>
Str_manylinux == <<"m", "a", "n", "y">> \o Str_linux
Str_musllinux == <<"m", "u", "s", "l">> \o Str_linux
Str_manylinux_ == Str_manylinux \o <<"_">>
Str_manylinux1 == Str_manylinux \o <<"1">>
Str_manylinux2014 == Str_manylinux \o <<"2", "0", "1", "4">>
Str_manylinux_2_5 == Str_manylinux \o <<"_", "2", "_", "5">>
Str_manylinux_2_17 == Str_manylinux \o <<"_", "2", "_", "1", "7">>
Str_manylinux_2_28 == Str_manylinux \o <<"_", "2", "_", "2", "8">>
Str_musllinux_1_1 == Str_musllinux \o <<"_", "1", "_", "1">>
Str_musllinux_1_2 == Str_musllinux \o <<"_", "1", "_", "2">>
Str_musllinux_1_3 == Str_musllinux \o <<"_", "1", "_", "3">>
Str_x86_64 == <<"x", "8", "6", "_", "6", "4">>
Str_i686 == <<"i", "6", "8", "6">>
Str_nosuch == <<"n", "o", "s", "u", "c", "h">>

\* str.startswith(prefix)
StartsWith(s, prefix) ==
    /\ Len(s) >= Len(prefix)
    /\ SubSeq(s, 1, Len(prefix)) = prefix

\* Index of the first sep in s at or after position i, 0 when there is none.
RECURSIVE Find(_, _, _)
Find(s, sep, i) ==
    IF i > Len(s) THEN 0
    ELSE IF s[i] = sep THEN i
    ELSE Find(s, sep, i + 1)

\* str.split(sep) for a one-character sep: the pieces between the separators,
\* empty pieces included.
RECURSIVE Split(_, _)
Split(s, sep) ==
    LET k == Find(s, sep, 1) IN
    IF k = 0 THEN <<s>>
    ELSE <<SubSeq(s, 1, k - 1)>> \o Split(SubSeq(s, k + 1, Len(s)), sep)

\* sep.join(pieces)
RECURSIVE Join(_, _)
Join(sep, pieces) ==
    IF Len(pieces) = 0 THEN <<>>
    ELSE IF Len(pieces) = 1 THEN pieces[1]
    ELSE pieces[1] \o <<sep>> \o Join(sep, Tail(pieces))

\* list[n:]
Slice(list, n) ==
    IF n >= Len(list) THEN <<>> ELSE SubSeq(list, n + 1, Len(list))

\* get_replace_platforms(name)
get_replace_platforms(name) ==
    IF StartsWith(name, Str_linux) THEN <<>>
    ELSE IF StartsWith(name, Str_manylinux_)
    THEN <<Str_linux \o <<"_">> \o Join("_", Slice(Split(name, "_"), 3))>>
    ELSE <<Str_linux \o <<"_">> \o Join("_", Slice(Split(name, "_"), 1))>>

\* ---------------------------------------------------------------- policy store
\* class Platform(Enum)
Platform == {"Manylinux", "Musllinux"}

\* The machines get_arch_name() is run on.
ArchNames == {Str_x86_64, Str_i686}

\* A Python dict: a function on the set of its keys.
EmptyDict == <<>>
Dicts(keys, vals) == UNION {[K -> vals] : K \in SUBSET keys}

\* dict.get(key, default)
DictGet(d, key, default) == IF key \in DOMAIN d THEN d[key] ELSE default

\* [x for x in list if x in keep], for the list positions in keep
RECURSIVE Filter(_, _)
Filter(list, keep) ==
    IF Len(list) = 0 THEN <<>>
    ELSE (IF keep[1] THEN <<Head(list)>> ELSE <<>>)
         \o Filter(Tail(list), Tail(keep))

\* sorted(policies, key=lambda x: x['priority'], reverse=True): stable, so
\* policies of equal priority keep the order of the file.
RECURSIVE InsertByPriority(_, _)
InsertByPriority(sortedList, p) ==
    IF Len(sortedList) = 0 THEN <<p>>
    ELSE IF Head(sortedList).priority >= p.priority
    THEN <<Head(sortedList)>> \o InsertByPriority(Tail(sortedList), p)
    ELSE <<p>> \o sortedList

RECURSIVE SortedByPriorityDesc(_)
SortedByPriorityDesc(policies) ==
    IF Len(policies) = 0 THEN <<>>
    ELSE InsertByPriority(
             SortedByPriorityDesc(SubSeq(policies, 1, Len(policies) - 1)),
             policies[Len(policies)])

\* PolicyRaises with the check of the symbol versions left out.
PolicyRaises_WhitelistOnly(policy, lib_whitelist, symbol_versions) ==
    ~(lib_whitelist \subseteq policy.lib_whitelist)

\* One policy of the loop of _validate_pep600_compliance, seen with the sets
\* gathered from the policies before it: TRUE when it raises ValueError.
PolicyRaises(policy, lib_whitelist, symbol_versions) ==
    \/ ~(lib_whitelist \subseteq policy.lib_whitelist)
    \/ \E arch \in DOMAIN policy.symbol_versions :
          LET symbol_versions_arch == DictGet(symbol_versions, arch, EmptyDict) IN
          \E prefix \in DOMAIN policy.symbol_versions[arch] :
              ~(DictGet(symbol_versions_arch, prefix, {})
                    \subseteq policy.symbol_versions[arch][prefix])

\* symbol_versions after the loop body has run for policy without raising.
UpdatedSymbolVersions(policy, symbol_versions) ==
    LET archs == DOMAIN symbol_versions \cup DOMAIN policy.symbol_versions IN
    [arch \in archs |->
        LET old == DictGet(symbol_versions, arch, EmptyDict)
            new == DictGet(policy.symbol_versions, arch, EmptyDict)
        IN [prefix \in DOMAIN old \cup DOMAIN new |->
               DictGet(old, prefix, {}) \cup DictGet(new, prefix, {})]]

\* The loop of _validate_pep600_compliance over the sorted policies:
\* "ok" when it returns, "ValueError" when it raises.
RECURSIVE ValidateLoop(_, _, _)
ValidateLoop(sortedPolicies, lib_whitelist, symbol_versions) ==
    IF Len(sortedPolicies) = 0 THEN "ok"
    ELSE LET policy == Head(sortedPolicies) IN
         IF policy.name = Str_linux
         THEN ValidateLoop(Tail(sortedPolicies), lib_whitelist, symbol_versions)
         ELSE IF PolicyRaises(policy, lib_whitelist, symbol_versions)
         THEN "ValueError"
         ELSE ValidateLoop(Tail(sortedPolicies),
                           lib_whitelist \cup policy.lib_whitelist,
                           UpdatedSymbolVersions(policy, symbol_versions))

\* _validate_pep600_compliance(policies)
validate_pep600_compliance(policies) ==
    ValidateLoop(SortedByPriorityDesc(policies), {}, EmptyDict)

RECURSIVE SeqMax(_)
SeqMax(s) ==
    IF Len(s) = 1 THEN s[1]
    ELSE LET m == SeqMax(Tail(s)) IN IF s[1] >= m THEN s[1] ELSE m

RECURSIVE SeqMin(_)
SeqMin(s) ==
    IF Len(s) = 1 THEN s[1]
    ELSE LET m == SeqMin(Tail(s)) IN IF s[1] <= m THEN s[1] ELSE m

\* The loop of _load_policy over the entries of the file: the entries for
\* this machine are kept and renamed.
SpecializePolicy(p, arch) ==
    [name |-> p.name \o <<"_">> \o arch,
     aliases |-> [k \in 1..Len(p.aliases) |-> p.aliases[k] \o <<"_">> \o arch],
     priority |-> p.priority,
     lib_whitelist |-> p.lib_whitelist,
     symbol_versions |-> IF p.name # Str_linux THEN p.symbol_versions[arch]
                         ELSE p.symbol_versions]

KeptPolicies(policies_temp, arch) ==
    LET keep == [k \in 1..Len(policies_temp) |->
                    \/ arch \in DOMAIN policies_temp[k].symbol_versions
                    \/ policies_temp[k].name = Str_linux]
        kept == Filter(policies_temp, keep)
    IN [k \in 1..Len(kept) |-> SpecializePolicy(kept[k], arch)]

priority_highest(policies) == SeqMax([k \in 1..Len(policies) |-> policies[k].priority])

priority_lowest(policies) == SeqMin([k \in 1..Len(policies) |-> policies[k].priority])

\* _load_policy(path, platform), policies_temp being the parsed file and arch
\* the value of _ARCH_NAME: a PlatformPolicies, or the exception raised.
load_policy(policies_temp, platform, arch) ==
    IF platform = "Manylinux" /\ validate_pep600_compliance(policies_temp) # "ok"
    THEN [status |-> "ValueError"]
    ELSE LET policies == KeptPolicies(policies_temp, arch) IN
         IF Len(policies) = 0 THEN [status |-> "ValueError"]
         ELSE [status |-> "ok",
               platform |-> platform,
               policies |-> policies,
               lowest |-> priority_lowest(policies),
               highest |-> priority_highest(policies)]

\* Python's None where a policy is expected, and the exception of the lookups.
None == [none |-> TRUE]
RuntimeError == [raised |-> "RuntimeError"]
IsPolicy(x) == "name" \in DOMAIN x

\* Python's None where a priority is expected (priorities are never negative).
NonePriority == -1

\* get_policy_by_name matching the canonical names only.
get_policy_by_name_NoAlias(policies, name) ==
    LET keep == [k \in 1..Len(policies.policies) |->
                    policies.policies[k].name = name]
        matches == Filter(policies.policies, keep)
    IN IF Len(matches) = 0 THEN None
       ELSE IF Len(matches) > 1 THEN RuntimeError
       ELSE matches[1]

\* get_policy_by_name(policies, name): the policy, None, or the exception.
get_policy_by_name(policies, name) ==
    LET keep == [k \in 1..Len(policies.policies) |->
                    \/ policies.policies[k].name = name
                    \/ \E j \in 1..Len(policies.policies[k].aliases) :
                          policies.policies[k].aliases[j] = name]
        matches == Filter(policies.policies, keep)
    IN IF Len(matches) = 0 THEN None
       ELSE IF Len(matches) > 1 THEN RuntimeError
       ELSE matches[1]

\* Python's None where a name is expected, and the exception of get_policy_name:
\* neither is a sequence of characters.
NoneName == <<"None">>
RuntimeErrorName == <<"RuntimeError">>

\* get_policy_name returning the first policy's name whatever the priority.
get_policy_name_First(policies, priority) ==
    policies.policies[1].name

\* get_policy_name(policies, priority): the name, None, or the exception.
get_policy_name(policies, priority) ==
    LET keep == [k \in 1..Len(policies.policies) |->
                    policies.policies[k].priority = priority]
        matches == Filter(policies.policies, keep)
    IN IF Len(matches) = 0 THEN NoneName
       ELSE IF Len(matches) > 1 THEN RuntimeErrorName
       ELSE matches[1].name

\* get_priority_by_name(policies, name)
get_priority_by_name(policies, name) ==
    LET policy == get_policy_by_name(policies, name) IN
    IF IsPolicy(policy) THEN policy.priority ELSE NonePriority

\* ---------------------------------------------------------------- policy files
\* The policy files are JSON data read at load time. The files enumerated
\* here have one entry per name, 'linux' first with nothing allowed, and
\* pairwise distinct names, aliases and priorities; what each other entry
\* allows is free, so that monotonic and regressive files both occur.
Versions == 1..MaxVersion
Libs == {"libc.so.6"}
Prefixes == {"GLIBC"}
PriorityValues == <<0, 80, 90, 100>>

ManylinuxNames == <<Str_linux, Str_manylinux_2_5, Str_manylinux_2_17, Str_manylinux_2_28>>
ManylinuxAliases == <<<<>>, <<Str_manylinux1>>, <<Str_manylinux2014>>, <<>>>>
MusllinuxNames == <<Str_linux, Str_musllinux_1_1, Str_musllinux_1_2, Str_musllinux_1_3>>
MusllinuxAliases == <<<<>>, <<>>, <<>>, <<>>>>

FileNames(plat) == IF plat = "Manylinux" THEN ManylinuxNames ELSE MusllinuxNames
FileAliases(plat) == IF plat = "Manylinux" THEN ManylinuxAliases ELSE MusllinuxAliases

\* The injective assignments of the first n priority values to n entries.
PriorityOrders(n) ==
    {f \in [1..n -> {PriorityValues[k] : k \in 1..n}] :
        \A x, y \in 1..n : x # y => f[x] # f[y]}

\* The files of n entries: names[k] with what contents allow, 'linux' (entry
\* 1) allowing nothing.
PolicyFiles(plat, n, contents, orders) ==
    {[k \in 1..n |->
        [name |-> FileNames(plat)[k],
         aliases |-> FileAliases(plat)[k],
         priority |-> pr[k],
         lib_whitelist |-> IF k = 1 THEN {} ELSE c[k].lib_whitelist,
         symbol_versions |-> IF k = 1 THEN EmptyDict ELSE c[k].symbol_versions]] :
     pr \in orders, c \in [2..n -> contents]}

\* ---------------------------------------------------------------- validation
\* What an entry may allow, for the check of the validation alone: every set
\* of versions, with the architecture or the prefix possibly not listed.
ValidateContents ==
    {[lib_whitelist |-> lw, symbol_versions |-> sv] :
        lw \in SUBSET Libs,
        sv \in Dicts({Str_x86_64}, Dicts(Prefixes, SUBSET Versions))}

NotLoaded == [status |-> "not loaded"]
NoAnswer == [op |-> "none"]
NoAbi == [none |-> TRUE]
NoWheel == [none |-> TRUE]
Running == [kind |-> "running", what |-> "", wheel |-> 0]

\* `auditwheel repair` is not running.
RepairIdle ==
    /\ given = [PLAT |-> NoneName, BEST_PLAT |-> FALSE, ONLY_PLAT |-> FALSE, WHEEL_FILE |-> 0]
    /\ args_PLAT = NoneName
    /\ wheel_policy = NotLoaded
    /\ idx = 0
    /\ pc = "idle"
    /\ wheel = NoWheel
    /\ wheel_abi = NoAbi
    /\ reqd_policy = None
    /\ abis = <<>>
    /\ outcome = Running
    /\ analyzed = <<>>
    /\ repaired = <<>>

InitValidate ==
    /\ ARCH_NAME = Str_x86_64
    /\ pf = "Manylinux"
    /\ policyFile \in PolicyFiles("Manylinux", 4, ValidateContents, PriorityOrders(4))
    /\ store = NotLoaded
    /\ answer = NoAnswer
    /\ RepairIdle

\* A call of _validate_pep600_compliance on the file.
Validate ==
    /\ answer = NoAnswer
    /\ answer' = [op |-> "validate", result |-> validate_pep600_compliance(policyFile)]
    /\ UNCHANGED <<ARCH_NAME, pf, policyFile, store, repairVars>>

NextValidate == Validate

SpecValidate == InitValidate /\ [][NextValidate]_vars

\* ---------------------------------------------------------------- load and lookup
\* What an entry may allow in the files that are loaded: per architecture,
\* the versions up to some ceiling.
LoadContents ==
    {[lib_whitelist |-> lw, symbol_versions |-> sv] :
        lw \in SUBSET Libs,
        sv \in Dicts(ArchNames, [Prefixes -> {1..k : k \in Versions}])}

InitPolicy ==
    /\ ARCH_NAME \in ArchNames
    /\ pf \in Platform
    /\ policyFile \in PolicyFiles(pf, 3, LoadContents,
                                  {pr \in PriorityOrders(3) : pr[1] = 0})
    /\ store = NotLoaded
    /\ answer = NoAnswer
    /\ RepairIdle

\* load_policies(platform), the first call (later calls return the cached value).
LoadPolicies ==
    /\ store = NotLoaded
    /\ store' = load_policy(policyFile, pf, ARCH_NAME)
    /\ UNCHANGED <<ARCH_NAME, pf, policyFile, answer, repairVars>>

\* The names and aliases of the loaded policies.
StoreNames(policies) ==
    UNION {{policies.policies[k].name}
           \cup {policies.policies[k].aliases[j] :
                    j \in 1..Len(policies.policies[k].aliases)} :
           k \in 1..Len(policies.policies)}

\* The names the lookups are called with: every name and alias of either
\* file, bare and with either architecture, and a name of no file.
BaseNames ==
    UNION {{FileNames(plat)[k]}
           \cup {FileAliases(plat)[k][j] : j \in 1..Len(FileAliases(plat)[k])} :
           plat \in Platform, k \in 1..3}

QueryNames ==
    BaseNames
    \cup {b \o <<"_">> \o a : b \in BaseNames, a \in ArchNames}
    \cup {Str_nosuch}

\* get_policy_by_name(policies, name) and get_priority_by_name(policies, name)
\* on the loaded store.
Lookup(name) ==
    /\ store.status = "ok"
    /\ answer' = [op |-> "lookup",
                  name |-> name,
                  policy |-> get_policy_by_name(store, name),
                  priority |-> get_priority_by_name(store, name)]
    /\ UNCHANGED <<ARCH_NAME, pf, policyFile, store, repairVars>>

\* get_replace_platforms(name) for a name of the loaded store.
ReplacePlatforms(name) ==
    /\ store.status = "ok"
    /\ answer' = [op |-> "replace", name |-> name, tags |-> get_replace_platforms(name)]
    /\ UNCHANGED <<ARCH_NAME, pf, policyFile, store, repairVars>>

LoadedNames == IF store.status = "ok" THEN StoreNames(store) ELSE {}

NextPolicy ==
    \/ LoadPolicies
    \/ \E name \in QueryNames \cup LoadedNames : Lookup(name)
    \/ \E name \in LoadedNames : ReplacePlatforms(name)

SpecPolicy == InitPolicy /\ [][NextPolicy]_vars

\* ---------------------------------------------------------------- auditwheel repair
\* The policy files the runs of `auditwheel repair` load: 'linux', then the
\* strictest platform (versions up to 1), then a newer one (versions up to 2).
SamplePolicyFile(plat) ==
    [k \in 1..3 |->
        [name |-> FileNames(plat)[k],
         aliases |-> FileAliases(plat)[k],
         priority |-> IF k = 1 THEN PriorityValues[1]
                      ELSE IF k = 2 THEN PriorityValues[4]
                      ELSE IF plat = "Manylinux" THEN PriorityValues[2]
                      ELSE PriorityValues[3],
         lib_whitelist |-> IF k = 1 THEN {} ELSE Libs,
         symbol_versions |->
             IF k = 1 THEN EmptyDict
             ELSE [a \in ArchNames |-> [x \in Prefixes |-> 1..(k - 1)]]]]

\* load_policies(policy)
load_policies(plat) == load_policy(policyFile[plat], plat, ARCH_NAME)

\* WheelPolicies(): the policies of the platform the program runs on.
WheelPolicies == load_policies(pf)

\* wheel_policy.set_platform_from_wheel(wheel_file): the policies of the
\* platform the wheel was built for.
set_platform_from_wheel(plat) == load_policies(plat)

\* What a wheel may contain: whether it has compiled code at all, the GLIBC
\* symbol versions it refers to, whether it was built against a UCS2 Python,
\* whether it refers to a blacklisted symbol, and the external libraries it needs.
WheelContents ==
    [platform_wheel : BOOLEAN,
     needs : {1..k : k \in 0..MaxVersion},
     ucs2 : BOOLEAN,
     blacklisted : BOOLEAN,
     external : {Libs, Libs \cup {"libfoo.so.1"}}]

NonPlatformWheel == [raised |-> "NonPlatformWheel"]

SetMax(S) == CHOOSE m \in S : \A x \in S : x <= m

PoliciesOf(policies) == {policies.policies[k] : k \in 1..Len(policies.policies)}

\* A policy's symbol versions are not exceeded by the wheel.
SymbolsOk(p, w) ==
    \A x \in DOMAIN p.symbol_versions : w.needs \subseteq p.symbol_versions[x]

\* A policy's allow-list has every external library of the wheel; the policy
\* of lowest priority allows every library.
LibsOk(policies, p, w) ==
    \/ p.priority = policies.lowest
    \/ w.external \subseteq p.lib_whitelist

\* The priorities of the three tags of the verdict.
SymPriority(policies, w) ==
    SetMax({p.priority : p \in {q \in PoliciesOf(policies) : SymbolsOk(q, w)}})

UcsPriority(policies, w) == IF w.ucs2 THEN policies.lowest ELSE policies.highest

BlacklistPriority(policies, w) ==
    IF w.blacklisted THEN policies.lowest ELSE policies.highest

\* The highest priority among the policies that pass all four checks.
OverallPriority(policies, w) ==
    SetMax({p.priority : p \in
               {q \in PoliciesOf(policies) :
                   /\ SymbolsOk(q, w)
                   /\ q.priority <= UcsPriority(policies, w)
                   /\ q.priority <= BlacklistPriority(policies, w)
                   /\ LibsOk(policies, q, w)}})

\* analyze_wheel_abi(wheel_policy, wheel_file, exclude)
analyze_wheel_abi(policies, w) ==
    IF ~w.platform_wheel THEN NonPlatformWheel
    ELSE [sym_tag |-> get_policy_name(policies, SymPriority(policies, w)),
          ucs_tag |-> get_policy_name(policies, UcsPriority(policies, w)),
          blacklist_tag |-> get_policy_name(policies, BlacklistPriority(policies, w)),
          overall_tag |-> get_policy_name(policies, OverallPriority(policies, w))]

\* Diagnostic without the check of the blacklist tag.
Diagnostic_NoBlacklist(policies, reqd_tag, abi) ==
    LET sym == get_priority_by_name(policies, abi.sym_tag)
        ucs == get_priority_by_name(policies, abi.ucs_tag)
    IN IF sym = NonePriority THEN "TypeError"
       ELSE IF reqd_tag > sym THEN "too-recent versioned symbols"
       ELSE IF ucs = NonePriority THEN "TypeError"
       ELSE IF reqd_tag > ucs THEN "UCS2 build of Python"
       ELSE "ok"

\* The three checks of execute on the requested priority: the p.error they
\* end in, "TypeError" when a tag has no priority, "ok" when all pass.
Diagnostic(policies, reqd_tag, abi) ==
    LET sym == get_priority_by_name(policies, abi.sym_tag)
        ucs == get_priority_by_name(policies, abi.ucs_tag)
        blacklist == get_priority_by_name(policies, abi.blacklist_tag)
    IN IF sym = NonePriority THEN "TypeError"
       ELSE IF reqd_tag > sym THEN "too-recent versioned symbols"
       ELSE IF ucs = NonePriority THEN "TypeError"
       ELSE IF reqd_tag > ucs THEN "UCS2 build of Python"
       ELSE IF blacklist = NonePriority THEN "TypeError"
       ELSE IF reqd_tag > blacklist THEN "black-listed symbols"
       ELSE "ok"

\* HigherPolicyFound with <= for <.
HigherPolicyFound_OrEqual(policies, p, abi) ==
    p.priority <= get_priority_by_name(policies, abi.overall_tag)

\* reqd_tag < wheel_policy.get_priority_by_name(wheel_abi.overall_tag)
HigherPolicyFound(policies, p, abi) ==
    p.priority < get_priority_by_name(policies, abi.overall_tag)

\* The abis execute builds for repair_wheel.
BuildAbis(policies, p, ONLY_PLAT, abi) ==
    LET own == <<p.name>> \o p.aliases IN
    IF ~ONLY_PLAT /\ HigherPolicyFound(policies, p, abi)
    THEN LET higher_policy == get_policy_by_name(policies, abi.overall_tag) IN
         <<higher_policy.name>> \o higher_policy.aliases \o own
    ELSE own

\* The command lines: --plat is one of the names and aliases of the policies
\* of the platform the program runs on, or is not given.
CommandLines ==
    [PLAT : {NoneName} \cup StoreNames(WheelPolicies),
     BEST_PLAT : BOOLEAN,
     ONLY_PLAT : BOOLEAN,
     WHEEL_FILE : 1..MaxWheels]

InitRepair ==
    /\ ARCH_NAME \in ArchNames
    /\ pf \in Platform
    /\ policyFile = [plat \in Platform |-> SamplePolicyFile(plat)]
    /\ store = NotLoaded
    /\ answer = NoAnswer
    /\ given \in CommandLines
    /\ args_PLAT = given.PLAT
    /\ wheel_policy = WheelPolicies
    /\ idx = 1
    /\ pc = "isfile"
    /\ wheel = NoWheel
    /\ wheel_abi = NoAbi
    /\ reqd_policy = None
    /\ abis = <<>>
    /\ outcome = Running
    /\ analyzed = <<>>
    /\ repaired = <<>>

Ended(kind, what) == [kind |-> kind, what |-> what, wheel |-> idx]

\* CheckFile reporting a missing file and going on with the next wheel.
CheckFile_Continue ==
    /\ pc = "isfile"
    /\ idx <= given.WHEEL_FILE
    /\ \E isfile \in BOOLEAN, plat \in Platform :
          IF ~isfile
          THEN /\ outcome' = Ended("p.error", "cannot access")
               /\ pc' = "isfile"
               /\ idx' = idx + 1
               /\ UNCHANGED wheel_policy
          ELSE /\ wheel_policy' = set_platform_from_wheel(plat)
               /\ pc' = "analyze"
               /\ UNCHANGED <<outcome, idx>>
    /\ UNCHANGED <<storeVars, given, args_PLAT, wheel, wheel_abi, reqd_policy,
                   abis, analyzed, repaired>>

\* The head of the loop body: isfile(wheel_file), then set_platform_from_wheel.
CheckFile ==
    /\ pc = "isfile"
    /\ idx <= given.WHEEL_FILE
    /\ \E isfile \in BOOLEAN, plat \in Platform :
          IF ~isfile
          THEN /\ outcome' = Ended("p.error", "cannot access")
               /\ pc' = "exit"
               /\ UNCHANGED wheel_policy
          ELSE /\ wheel_policy' = set_platform_from_wheel(plat)
               /\ pc' = "analyze"
               /\ UNCHANGED outcome
    /\ UNCHANGED <<storeVars, given, args_PLAT, idx, wheel, wheel_abi, reqd_policy,
                   abis, analyzed, repaired>>

\* The loop is over: execute returns None.
LoopEnd ==
    /\ pc = "isfile"
    /\ idx > given.WHEEL_FILE
    /\ outcome' = Ended("return", "None")
    /\ pc' = "exit"
    /\ UNCHANGED <<storeVars, given, args_PLAT, wheel_policy, idx, wheel, wheel_abi,
                   reqd_policy, abis, analyzed, repaired>>

\* Analyze with the handler of NonPlatformWheel going on with the next wheel
\* instead of returning 1.
Analyze_NoReturn ==
    /\ pc = "analyze"
    /\ analyzed' = Append(analyzed, idx)
    /\ \E w \in WheelContents :
          LET abi == analyze_wheel_abi(wheel_policy, w) IN
          /\ wheel' = w
          /\ IF abi = NonPlatformWheel
             THEN /\ idx' = idx + 1
                  /\ pc' = "isfile"
                  /\ UNCHANGED <<wheel_abi, outcome>>
             ELSE /\ wheel_abi' = abi
                  /\ pc' = "select"
                  /\ UNCHANGED <<outcome, idx>>
    /\ UNCHANGED <<storeVars, given, args_PLAT, wheel_policy, reqd_policy,
                   abis, repaired>>

\* analyze_wheel_abi and the handler of NonPlatformWheel.
Analyze ==
    /\ pc = "analyze"
    /\ analyzed' = Append(analyzed, idx)
    /\ \E w \in WheelContents :
          LET abi == analyze_wheel_abi(wheel_policy, w) IN
          /\ wheel' = w
          /\ IF abi = NonPlatformWheel
             THEN /\ outcome' = Ended("return", "1")
                  /\ pc' = "exit"
                  /\ UNCHANGED wheel_abi
             ELSE /\ wheel_abi' = abi
                  /\ pc' = "select"
                  /\ UNCHANGED outcome
    /\ UNCHANGED <<storeVars, given, args_PLAT, wheel_policy, idx, reqd_policy,
                   abis, repaired>>

\* From `if args.BEST_PLAT` to the abis, for args.PLAT as it is when the
\* wheel is reached: the value args.PLAT gets, the policy looked up, how the
\* checks end ("ok" when repair_wheel is to be called) and the abis.
Select(policies, PLAT_in, BEST_PLAT, ONLY_PLAT, abi) ==
    IF BEST_PLAT /\ PLAT_in # NoneName
    THEN [PLAT |-> PLAT_in, policy |-> None, abis |-> <<>>,
          kind |-> "p.error", what |-> "Cannot specify both --best-plat and --plat"]
    ELSE LET best == IF BEST_PLAT THEN abi.overall_tag ELSE PLAT_in
             highest_policy == get_policy_name(policies, policies.highest)
             PLAT == IF best = NoneName THEN highest_policy ELSE best
             p == get_policy_by_name(policies, PLAT)
             diag == IF IsPolicy(p) THEN Diagnostic(policies, p.priority, abi)
                     ELSE "TypeError"
         IN IF diag = "TypeError"
            THEN [PLAT |-> PLAT, policy |-> p, abis |-> <<>>,
                  kind |-> "exception", what |-> "TypeError"]
            ELSE IF diag # "ok"
            THEN [PLAT |-> PLAT, policy |-> p, abis |-> <<>>,
                  kind |-> "p.error", what |-> diag]
            ELSE [PLAT |-> PLAT, policy |-> p,
                  abis |-> BuildAbis(policies, p, ONLY_PLAT, abi),
                  kind |-> "ok", what |-> "ok"]

\* The part of the loop body between analyze_wheel_abi and repair_wheel.
SelectTarget ==
    /\ pc = "select"
    /\ LET r == Select(wheel_policy, args_PLAT, given.BEST_PLAT, given.ONLY_PLAT,
                       wheel_abi)
       IN /\ args_PLAT' = r.PLAT
          /\ reqd_policy' = r.policy
          /\ abis' = r.abis
          /\ IF r.kind = "ok"
             THEN /\ pc' = "repair"
                  /\ UNCHANGED outcome
             ELSE /\ pc' = "exit"
                  /\ outcome' = Ended(r.kind, r.what)
    /\ UNCHANGED <<storeVars, given, wheel_policy, idx, wheel, wheel_abi, analyzed,
                   repaired>>

\* RepairWheel without `if args.BEST_PLAT: args.PLAT = None`.
RepairWheel_NoReset ==
    /\ pc = "repair"
    /\ repaired' = Append(repaired, idx)
    /\ \E raised \in BOOLEAN :
          IF raised
          THEN /\ outcome' = Ended("exception", "repair_wheel")
               /\ pc' = "exit"
               /\ UNCHANGED <<args_PLAT, idx, wheel, wheel_abi, reqd_policy, abis>>
          ELSE /\ idx' = idx + 1
               /\ pc' = "isfile"
               /\ wheel' = NoWheel
               /\ wheel_abi' = NoAbi
               /\ reqd_policy' = None
               /\ abis' = <<>>
               /\ UNCHANGED <<outcome, args_PLAT>>
    /\ UNCHANGED <<storeVars, given, wheel_policy, analyzed>>

\* The call of repair_wheel, which returns or raises, and the end of the
\* loop body.
RepairWheel ==
    /\ pc = "repair"
    /\ repaired' = Append(repaired, idx)
    /\ \E raised \in BOOLEAN :
          IF raised
          THEN /\ outcome' = Ended("exception", "repair_wheel")
               /\ pc' = "exit"
               /\ UNCHANGED <<args_PLAT, idx, wheel, wheel_abi, reqd_policy, abis>>
          ELSE /\ args_PLAT' = IF given.BEST_PLAT THEN NoneName ELSE args_PLAT
               /\ idx' = idx + 1
               /\ pc' = "isfile"
               /\ wheel' = NoWheel
               /\ wheel_abi' = NoAbi
               /\ reqd_policy' = None
               /\ abis' = <<>>
               /\ UNCHANGED outcome
    /\ UNCHANGED <<storeVars, given, wheel_policy, analyzed>>

NextRepair ==
    \/ CheckFile
    \/ LoopEnd
    \/ Analyze
    \/ SelectTarget
    \/ RepairWheel

SpecRepair == InitRepair /\ [][NextRepair]_vars

\* ================================================================ claims
\* The entries of a file other than 'linux'.
NonLinux(file) == {k \in 1..Len(file) : file[k].name # Str_linux}

\* The (architecture, prefix) pairs an entry lists, and the versions it
\* gives for a pair (none when it does not list the pair).
Listed(p) ==
    UNION {{<<a, x>> : x \in DOMAIN p.symbol_versions[a]} :
           a \in DOMAIN p.symbol_versions}

VersionsOf(p, a, x) ==
    IF <<a, x>> \in Listed(p) THEN p.symbol_versions[a][x] ELSE {}

\* A file is regressive when an entry allows less than an entry of strictly
\* higher priority: a library missing, or a version missing for a pair both list.
Regressive(file) ==
    \E a, b \in NonLinux(file) :
        /\ file[a].priority > file[b].priority
        /\ \/ ~(file[a].lib_whitelist \subseteq file[b].lib_whitelist)
           \/ \E ax \in Listed(file[a]) \cap Listed(file[b]) :
                 ~(VersionsOf(file[a], ax[1], ax[2])
                       \subseteq VersionsOf(file[b], ax[1], ax[2]))

\* C1: whichever the platform, loading a regressive policy file raises: no
\* store is returned for it.
C1_RegressiveRejected ==
    store.status = "ok" => ~Regressive(policyFile)

\* The names a policy answers to.
NamesOf(p) == {p.name} \cup {p.aliases[j] : j \in 1..Len(p.aliases)}

\* C2: a lookup by the name or by an alias of a policy of the store returns that
\* policy (and its priority); a lookup by any other name returns None; no
\* lookup raises.
C2_LookupByName ==
    answer.op = "lookup" =>
        /\ \A k \in 1..Len(store.policies) :
              answer.name \in NamesOf(store.policies[k]) =>
                  /\ answer.policy = store.policies[k]
                  /\ answer.priority = store.policies[k].priority
        /\ answer.name \notin StoreNames(store) =>
              /\ answer.policy = None
              /\ answer.priority = NonePriority
        /\ answer.policy # RuntimeError

\* A lookup by an alias has returned the policy of another canonical name.
C2_Witness ==
    /\ answer.op = "lookup"
    /\ IsPolicy(answer.policy)
    /\ answer.policy.name # answer.name
    /\ Len(store.policies) > 1

\* C6: get_replace_platforms gives [] for a name starting with 'linux' and
\* ['linux_<arch>'] for every other name of the store.
C6_ReplacePlatforms ==
    answer.op = "replace" =>
        answer.tags = IF StartsWith(answer.name, Str_linux) THEN <<>>
                      ELSE <<Str_linux \o <<"_">> \o ARCH_NAME>>

\* C9 as stated: the validation accepts exactly the files in which, for all
\* entries a, b other than 'linux' with a of higher priority, a's libraries
\* are among b's and, for every pair a lists, a's versions are among b's
\* (none, when b does not list the pair).
C9_AcceptsAsStated(file) ==
    \A a, b \in NonLinux(file) :
        file[a].priority > file[b].priority =>
            /\ file[a].lib_whitelist \subseteq file[b].lib_whitelist
            /\ \A ax \in Listed(file[a]) :
                  VersionsOf(file[a], ax[1], ax[2])
                      \subseteq VersionsOf(file[b], ax[1], ax[2])

C9_Original ==
    answer.op = "validate" =>
        (answer.result = "ok" <=> C9_AcceptsAsStated(policyFile))

\* C9 amended: the pairs compared are those the lower-priority entry b lists
\* (a's versions being none when a does not list the pair); a pair b does not
\* list is not checked.
C9_AcceptsAmended(file) ==
    \A a, b \in NonLinux(file) :
        file[a].priority > file[b].priority =>
            /\ file[a].lib_whitelist \subseteq file[b].lib_whitelist
            /\ \A ax \in Listed(file[b]) :
                  VersionsOf(file[a], ax[1], ax[2])
                      \subseteq VersionsOf(file[b], ax[1], ax[2])

\* C9 (amended): _validate_pep600_compliance returns for exactly the files of
\* C9_AcceptsAmended and raises ValueError for every other file.
C9_Validate ==
    answer.op = "validate" =>
        /\ answer.result \in {"ok", "ValueError"}
        /\ answer.result = "ok" <=> C9_AcceptsAmended(policyFile)

\* A file is accepted in which a higher-priority entry lists versions for a
\* pair that a lower-priority entry does not list.
C9_Witness ==
    /\ answer.op = "validate"
    /\ answer.result = "ok"
    /\ \E a, b \in NonLinux(policyFile) :
          /\ policyFile[a].priority > policyFile[b].priority
          /\ \E ax \in Listed(policyFile[a]) \ Listed(policyFile[b]) :
                VersionsOf(policyFile[a], ax[1], ax[2]) # {}

\* The policy of the store that answers to a name (the names of a store are
\* pairwise distinct).
TierNamed(policies, name) ==
    CHOOSE p \in PoliciesOf(policies) : name \in NamesOf(p)

PriorityNamed(policies, name) == TierNamed(policies, name).priority

\* The outcomes SelectTarget ends execute with.
SelectErrors ==
    {"Cannot specify both --best-plat and --plat", "TypeError",
     "too-recent versioned symbols", "UCS2 build of Python", "black-listed symbols"}

\* C3: repair_wheel is called for a wheel only when the requested priority is
\* at most the priorities of sym_tag, ucs_tag and blacklist_tag; otherwise
\* execute has ended in p.error for that wheel, before repair_wheel, with the
\* diagnostic of the first violated check in the order symbols, UCS2, blacklist.
C3_ChecksBeforeRepair ==
    /\ pc = "repair" => IsPolicy(reqd_policy)
    /\ IsPolicy(reqd_policy) =>
          LET reqd_tag == reqd_policy.priority
              sym == PriorityNamed(wheel_policy, wheel_abi.sym_tag)
              ucs == PriorityNamed(wheel_policy, wheel_abi.ucs_tag)
              blacklist == PriorityNamed(wheel_policy, wheel_abi.blacklist_tag)
              Aborted(what) == /\ pc = "exit"
                               /\ outcome = [kind |-> "p.error", what |-> what,
                                             wheel |-> idx]
                               /\ \A k \in 1..Len(repaired) : repaired[k] # idx
          IN IF reqd_tag > sym THEN Aborted("too-recent versioned symbols")
             ELSE IF reqd_tag > ucs THEN Aborted("UCS2 build of Python")
             ELSE IF reqd_tag > blacklist THEN Aborted("black-listed symbols")
             ELSE pc = "repair" \/ outcome.what = "repair_wheel"

\* execute has ended with the UCS2 diagnostic for a wheel that fails the
\* blacklist check as well.
C3_Witness ==
    /\ pc = "exit"
    /\ outcome.what = "UCS2 build of Python"
    /\ IsPolicy(reqd_policy)
    /\ reqd_policy.priority > PriorityNamed(wheel_policy, wheel_abi.blacklist_tag)
    /\ reqd_policy.priority <= PriorityNamed(wheel_policy, wheel_abi.sym_tag)

\* C4: the wheels are analyzed and repaired in the order given, each finished
\* before the next is started, and a fatal error on wheel w ends the run: no
\* wheel after w is analyzed or repaired, and every wheel before w was repaired.
C4_FailFast ==
    /\ \A k \in 1..Len(analyzed) : analyzed[k] = k
    /\ \A k \in 1..Len(repaired) : repaired[k] = k
    /\ Len(repaired) <= Len(analyzed)
    /\ Len(analyzed) <= Len(repaired) + 1
    /\ Len(analyzed) <= idx
    /\ outcome.kind \in {"p.error", "exception"} =>
          /\ pc = "exit"
          /\ idx = outcome.wheel
          /\ Len(analyzed) <= outcome.wheel
          /\ Len(repaired) <= outcome.wheel
          /\ Len(repaired) >= outcome.wheel - 1

\* A fatal error on the second of three wheels, the first one repaired.
C4_Witness ==
    /\ outcome.kind = "p.error"
    /\ outcome.wheel = 2
    /\ given.WHEEL_FILE > 2
    /\ repaired = <<1>>

\* C5: with --best-plat and no --plat, every wheel that reaches repair_wheel
\* gets the names of the tier of its own overall_tag, canonical name first,
\* then the aliases; "Cannot specify both" is raised only when --plat was given.
C5_BestPlat ==
    /\ (given.BEST_PLAT /\ given.PLAT = NoneName /\ pc = "repair") =>
          LET t == TierNamed(wheel_policy, wheel_abi.overall_tag) IN
          abis = <<t.name>> \o t.aliases
    /\ outcome.what = "Cannot specify both --best-plat and --plat" =>
          given.PLAT # NoneName

\* A later wheel of a --best-plat batch is about to be repaired toward a tier
\* that has an alias.
C5_Witness ==
    /\ given.BEST_PLAT
    /\ given.PLAT = NoneName
    /\ pc = "repair"
    /\ idx = 2
    /\ Len(abis) = 2

C8_Independent ==
    LET first == Select(wheel_policy, given.PLAT, given.BEST_PLAT, given.ONLY_PLAT,
                        wheel_abi)
    IN /\ pc = "repair" =>
             /\ first.kind = "ok"
             /\ reqd_policy = first.policy
             /\ abis = first.abis
       /\ (pc = "exit" /\ outcome.what \in SelectErrors) =>
             outcome.what = first.what

\* No name occurs twice in a list.
NoRepeat(list) == \A x, y \in 1..Len(list) : x # y => list[x] # list[y]

\* C10: the abis passed to repair_wheel end with the canonical name of the
\* requested tier and its aliases; with --only-plat there is nothing else;
\* without it the names of the overall_tag tier come first exactly when that
\* tier is of strictly higher priority; no name occurs twice.
C10_Abis ==
    pc = "repair" =>
        LET own == <<reqd_policy.name>> \o reqd_policy.aliases
            t == TierNamed(wheel_policy, wheel_abi.overall_tag)
        IN /\ args_PLAT \in NamesOf(reqd_policy)
           /\ given.PLAT # NoneName /\ idx = 1 => given.PLAT \in NamesOf(reqd_policy)
           /\ given.ONLY_PLAT => abis = own
           /\ ~given.ONLY_PLAT =>
                 abis = IF t.priority > reqd_policy.priority
                        THEN <<t.name>> \o t.aliases \o own
                        ELSE own
           /\ NoRepeat(abis)

\* The user names the tier by an alias and the wheel is eligible for a higher
\* tier, whose names are put in front.
C10_Witness ==
    /\ pc = "repair"
    /\ args_PLAT # reqd_policy.name
    /\ Len(abis) > 1 + Len(reqd_policy.aliases)

\* The wheel at hand is one for which analyze_wheel_abi raised NonPlatformWheel.
SignalledNonPlatform ==
    /\ wheel # NoWheel
    /\ analyze_wheel_abi(wheel_policy, wheel) = NonPlatformWheel

\* C11: when the analysis of wheel w signals NonPlatformWheel, execute has
\* returned 1 and is over: w is not repaired, no wheel after w is analyzed or
\* repaired, and the wheels before w, all repaired, stay so.  Conversely a
\* return of 1 comes only from that signal.
C11_NonPlatformWheel ==
    /\ SignalledNonPlatform =>
          /\ pc = "exit"
          /\ outcome = [kind |-> "return", what |-> "1", wheel |-> idx]
    /\ (outcome.kind = "return" /\ outcome.what = "1") =>
          /\ pc = "exit"
          /\ SignalledNonPlatform
          /\ Len(analyzed) = outcome.wheel
          /\ \A k \in 1..Len(analyzed) : analyzed[k] = k
          /\ Len(repaired) = outcome.wheel - 1
          /\ \A k \in 1..Len(repaired) : repaired[k] = k

\* The second of three wheels is not a platform wheel, the first was repaired.
C11_Witness ==
    /\ SignalledNonPlatform
    /\ outcome.kind = "return"
    /\ outcome.what = "1"
    /\ outcome.wheel = 2
    /\ given.WHEEL_FILE = 3
    /\ analyzed = <<1, 2>>
    /\ repaired = <<1>>

====
